---- MODULE Spec2Model ----
(***************************************************************************)
(* A model of the go-pushbullet client library (src/pushbullet.go).        *)
(*                                                                         *)
(* One Client issues one call at a time.  A call builds its request        *)
(* (buildRequest), hands it to the HTTP transport (client.Client.Do),      *)
(* which answers with a transport error or a response, and then handles    *)
(* the response: status classification, JSON decoding, the deferred        *)
(* Body.Close, and for Device/Subscription the scan of the listing.        *)
(* A Device or Subscription that a call returned can push through its      *)
(* Client.  SpecConc runs several calls at once, statement by statement.   *)
(*                                                                         *)
(* Text that is only compared (idens, nicknames, titles) is a TLA+ string. *)
(* Text that is transformed (the API key on its way into the               *)
(* Authorization header) is a sequence of byte values.                     *)
(***************************************************************************)
EXTENDS Integers, Sequences, FiniteSets, TLC

\* ------------------------------------------------------------------------
\* Bounds of the model
\* ------------------------------------------------------------------------
MaxOwned == 2
MaxShared == 1
MaxSubs == 2
NumGoroutines == 2

\* ------------------------------------------------------------------------
\* Program constants
\* ------------------------------------------------------------------------
AllDevices == ""
EndpointURL == "https://api.pushbullet.com/v2"
StatusOK == 200
ErrDeviceNotFoundText == "Device not found"
CloseErrPrefix == "Unable to close connection to PushBullet: "

\* the client pointer and the nil pointer
ThisClient == "pb"
NilClient == "nil"

\* ------------------------------------------------------------------------
\* Bytes and text
\* ------------------------------------------------------------------------
\* the sequences over S of length n at most
RECURSIVE SeqsUpTo(_, _)
SeqsUpTo(S, n) ==
    IF n = 0 THEN {<<>>}
    ELSE LET shorter == SeqsUpTo(S, n - 1)
         IN  shorter \cup {Append(s, c) : s \in {t \in shorter : Len(t) = n - 1}, c \in S}

\* the API keys tried: the empty key, "a", " ", "a:@" and "/%"
Keys == {<<>>, <<97>>, <<32>>, <<97, 58, 64>>, <<47, 37>>}

IsAlnum(c) == (c >= 48 /\ c <= 57) \/ (c >= 65 /\ c <= 90) \/ (c >= 97 /\ c <= 122)

\* net/url shouldEscape in mode encodeUserPassword, as url.UserPassword(..).String() uses it:
\* unreserved characters stay; of the reserved ones "@" "/" "?" ":" are escaped; all else is escaped.
shouldEscape(c) ==
    IF IsAlnum(c) \/ c \in {45, 95, 46, 126} THEN FALSE
    ELSE IF c \in {36, 38, 43, 44, 59, 61} THEN FALSE
    ELSE TRUE

\* upper-case hex digit of a nibble
UpperHex(n) == IF n < 10 THEN 48 + n ELSE 55 + n

RECURSIVE escape(_)
escape(s) ==
    IF s = <<>> THEN <<>>
    ELSE LET c == Head(s)
         IN  (IF shouldEscape(c) THEN <<37, UpperHex(c \div 16), UpperHex(c % 16)>> ELSE <<c>>)
             \o escape(Tail(s))

\* url.UserPassword(username, password).String(): "%" is 37, ":" is 58
UserPasswordString(username, password) == escape(username) \o <<58>> \o escape(password)

\* base64.StdEncoding: A-Z a-z 0-9 + / with "=" (61) padding
B64Char(v) ==
    IF v < 26 THEN 65 + v
    ELSE IF v < 52 THEN 97 + (v - 26)
    ELSE IF v < 62 THEN 48 + (v - 52)
    ELSE IF v = 62 THEN 43 ELSE 47

RECURSIVE EncodeToString(_)
EncodeToString(b) ==
    IF Len(b) = 0 THEN <<>>
    ELSE IF Len(b) = 1 THEN
        <<B64Char(b[1] \div 4), B64Char((b[1] % 4) * 16), 61, 61>>
    ELSE IF Len(b) = 2 THEN
        <<B64Char(b[1] \div 4), B64Char((b[1] % 4) * 16 + b[2] \div 16),
          B64Char((b[2] % 16) * 4), 61>>
    ELSE
        <<B64Char(b[1] \div 4), B64Char((b[1] % 4) * 16 + b[2] \div 16),
          B64Char((b[2] % 16) * 4 + b[3] \div 64), B64Char(b[3] % 64)>>
        \o EncodeToString(SubSeq(b, 4, Len(b)))

\* "Basic "
BasicPrefix == <<66, 97, 115, 105, 99, 32>>

\* ------------------------------------------------------------------------
\* JSON values: what a body is once it is on the wire
\* ------------------------------------------------------------------------
JSyntax == [k |-> "syntax"]                      \* bytes that are not JSON (also the empty body)
JNull == [k |-> "null"]
JNum == [k |-> "num"]                            \* a number or boolean: never a string, object or array
JStr(s) == [k |-> "str", s |-> s]
JArr(a) == [k |-> "arr", a |-> a]
JObj(o) == [k |-> "obj", o |-> o]
NoMembers == [n \in {} |-> JNull]

Has(v, name) == v.k = "obj" /\ name \in DOMAIN v.o

\* ------------------------------------------------------------------------
\* Push payloads (Note, Link, Ephemeral) and their JSON encoding
\* ------------------------------------------------------------------------
Note(iden, tag, title, body) ==
    [struct |-> "Note", Iden |-> iden, Tag |-> tag, Type |-> "note", Title |-> title, Body |-> body]

Link(iden, tag, title, u, body) ==
    [struct |-> "Link", Iden |-> iden, Tag |-> tag, Type |-> "link", Title |-> title,
     URL |-> u, Body |-> body]

\* as EphemeralPush, but the two idens change places
EphemeralPush_SwapsIdens(userIden, deviceIden, phoneNumber, message) ==
    [struct |-> "EphemeralPush", Type |-> "messaging_extension_reply",
     PackageName |-> "com.pushbullet.android", SourceUserIden |-> deviceIden,
     TargetDeviceIden |-> userIden, ConversationIden |-> phoneNumber, Message |-> message]

EphemeralPush(userIden, deviceIden, phoneNumber, message) ==
    [struct |-> "EphemeralPush", Type |-> "messaging_extension_reply",
     PackageName |-> "com.pushbullet.android", SourceUserIden |-> userIden,
     TargetDeviceIden |-> deviceIden, ConversationIden |-> phoneNumber, Message |-> message]

Ephemeral(push) == [struct |-> "Ephemeral", Type |-> "push", Push |-> push]

NoData == [struct |-> "nil"]

\* as NoteTags, but device_iden is not omitempty
NoteTags_IdenAlways ==
    { <<"device_iden", "Iden", FALSE>>, <<"channel_tag", "Tag", TRUE>>, <<"type", "Type", FALSE>>,
      <<"title", "Title", FALSE>>, <<"body", "Body", FALSE>> }

\* the json struct tags: member name, struct field, omitempty
NoteTags ==
    { <<"device_iden", "Iden", TRUE>>, <<"channel_tag", "Tag", TRUE>>, <<"type", "Type", FALSE>>,
      <<"title", "Title", FALSE>>, <<"body", "Body", FALSE>> }

\* as LinkTags, but channel_tag is not omitempty
LinkTags_TagAlways ==
    { <<"device_iden", "Iden", TRUE>>, <<"channel_tag", "Tag", FALSE>>, <<"type", "Type", FALSE>>,
      <<"title", "Title", FALSE>>, <<"url", "URL", FALSE>>, <<"body", "Body", TRUE>> }

LinkTags ==
    { <<"device_iden", "Iden", TRUE>>, <<"channel_tag", "Tag", TRUE>>, <<"type", "Type", FALSE>>,
      <<"title", "Title", FALSE>>, <<"url", "URL", FALSE>>, <<"body", "Body", TRUE>> }

EphemeralPushTags ==
    { <<"type", "Type", FALSE>>, <<"package_name", "PackageName", FALSE>>,
      <<"source_user_iden", "SourceUserIden", FALSE>>,
      <<"target_device_iden", "TargetDeviceIden", FALSE>>,
      <<"conversation_iden", "ConversationIden", FALSE>>, <<"message", "Message", FALSE>> }

\* a Go string that is not valid UTF-8 (the byte 0xFF), and the character U+FFFD
InvalidUTF8 == "<0xFF>"
ReplacementChar == "<U+FFFD>"

\* encoding/json writes a string as JSON text: bytes that are not valid UTF-8 become U+FFFD
ToValidUTF8(text) == IF text = InvalidUTF8 THEN ReplacementChar ELSE text

\* as EncodeStrings, but an omitempty field is left out whatever it holds
EncodeStrings_OmitsAlways(d, tags) ==
    LET kept == {t \in tags : ~t[3]}
        names == {t[1] : t \in kept}
    IN  JObj([n \in names |-> JStr(ToValidUTF8(d[(CHOOSE t \in kept : t[1] = n)[2]]))])

\* encoding/json on a struct of string fields: an omitempty field that is "" is left out
EncodeStrings(d, tags) ==
    LET kept == {t \in tags : ~(t[3] /\ d[t[2]] = "")}
        names == {t[1] : t \in kept}
    IN  JObj([n \in names |-> JStr(ToValidUTF8(d[(CHOOSE t \in kept : t[1] = n)[2]]))])

\* a value encoding/json cannot marshal (a channel, a func): Encode fails having written nothing
Unserializable == [struct |-> "chan"]
EmptyBody == [k |-> "empty"]

Encode(data) ==
    IF data = Unserializable THEN EmptyBody
    ELSE IF data.struct = "Note" THEN EncodeStrings(data, NoteTags)
    ELSE IF data.struct = "Link" THEN EncodeStrings(data, LinkTags)
    ELSE IF data.struct = "EphemeralPush" THEN EncodeStrings(data, EphemeralPushTags)
    ELSE JObj([n \in {"type", "push"} |->
                 IF n = "type" THEN JStr(data.Type) ELSE EncodeStrings(data.Push, EphemeralPushTags)])

\* ------------------------------------------------------------------------
\* buildRequest
\* ------------------------------------------------------------------------
NoBody == [k |-> "nobody"]
Background == "context.Background"

AuthorizationOf(key) == BasicPrefix \o EncodeToString(UserPasswordString(key, <<>>))

\* as buildRequest, but the Content-Type header is set on every request
buildRequest_ContentTypeAlways(c, ctx, object, data) ==
    [ Method |-> IF data = NoData THEN "GET" ELSE "POST",
      URL |-> c.URL \o object,
      Header |-> [n \in {"Authorization", "Content-Type"} |->
                    IF n = "Authorization" THEN AuthorizationOf(c.Key) ELSE "application/json"],
      Body |-> IF data = NoData THEN NoBody ELSE Encode(data),
      ctx |-> ctx ]

\* http.NewRequestWithContext fails to parse the URL: of the URLs tried, the one whose path
\* has the invalid escape "%zz"
ParseFails(rawurl) == rawurl = EndpointURL \o "/%zz"

buildRequest(c, ctx, object, data) ==
    [ Method |-> IF data = NoData THEN "GET" ELSE "POST",
      URL |-> c.URL \o object,
      Header |-> IF data = NoData
                 THEN [n \in {"Authorization"} |-> AuthorizationOf(c.Key)]
                 ELSE [n \in {"Authorization", "Content-Type"} |->
                         IF n = "Authorization" THEN AuthorizationOf(c.Key)
                         ELSE "application/json"],
      Body |-> IF data = NoData THEN NoBody ELSE Encode(data),
      ctx |-> ctx ]

\* ------------------------------------------------------------------------
\* Decoding of response bodies (encoding/json into the response structs)
\* ------------------------------------------------------------------------
NilPtr == [t |-> "nil"]

\* a string field accepts a JSON string, is left at "" by null or an absent member,
\* and makes Decode fail on any other JSON value
StrOk(o, name) == name \notin DOMAIN o \/ o[name].k \in {"str", "null"}
StrVal(o, name) == IF name \in DOMAIN o /\ o[name].k = "str" THEN o[name].s ELSE ""

ZeroErrResponse == [Type |-> "", Message |-> "", Cat |-> ""]

\* Decode into errorResponse: the member "error" fills the embedded ErrResponse
DecodeErrorResponse(body) ==
    IF body.k = "null" THEN [ok |-> TRUE, v |-> ZeroErrResponse]
    ELSE IF body.k # "obj" THEN [ok |-> FALSE, v |-> ZeroErrResponse]
    ELSE IF "error" \notin DOMAIN body.o \/ body.o["error"].k = "null"
         THEN [ok |-> TRUE, v |-> ZeroErrResponse]
    ELSE IF body.o["error"].k # "obj" THEN [ok |-> FALSE, v |-> ZeroErrResponse]
    ELSE LET e == body.o["error"].o
         IN  [ok |-> \A n \in {"type", "message", "cat"} : StrOk(e, n),
              v |-> [Type |-> StrVal(e, "type"), Message |-> StrVal(e, "message"),
                     Cat |-> StrVal(e, "cat")]]

\* one element of []*Device: null is a nil pointer, an object a new Device without Client
DecodeDevice(v) ==
    IF v.k = "null" THEN [ok |-> TRUE, v |-> NilPtr]
    ELSE IF v.k # "obj" THEN [ok |-> FALSE, v |-> NilPtr]
    ELSE [ok |-> StrOk(v.o, "iden") /\ StrOk(v.o, "nickname"),
          v |-> [t |-> "Device", Iden |-> StrVal(v.o, "iden"),
                 Nickname |-> StrVal(v.o, "nickname"), Client |-> NilClient]]

\* the member name of a slice field: absent or null leaves the nil slice
DecodeDeviceSlice(o, name) ==
    IF name \notin DOMAIN o \/ o[name].k = "null" THEN [ok |-> TRUE, v |-> <<>>]
    ELSE IF o[name].k # "arr" THEN [ok |-> FALSE, v |-> <<>>]
    ELSE LET a == o[name].a
         IN  [ok |-> \A i \in 1..Len(a) : DecodeDevice(a[i]).ok,
              v |-> [i \in 1..Len(a) |-> DecodeDevice(a[i]).v]]

\* Decode into deviceResponse
DecodeDeviceResponse(body) ==
    IF body.k = "null" THEN [ok |-> TRUE, Devices |-> <<>>, SharedDevices |-> <<>>]
    ELSE IF body.k # "obj" THEN [ok |-> FALSE, Devices |-> <<>>, SharedDevices |-> <<>>]
    ELSE LET d == DecodeDeviceSlice(body.o, "devices")
             sh == DecodeDeviceSlice(body.o, "shared_devices")
         IN  [ok |-> d.ok /\ sh.ok, Devices |-> d.v, SharedDevices |-> sh.v]

\* the member "channel" of a Subscription: *Channel
DecodeChannel(o) ==
    IF "channel" \notin DOMAIN o \/ o["channel"].k = "null" THEN [ok |-> TRUE, v |-> NilPtr]
    ELSE IF o["channel"].k # "obj" THEN [ok |-> FALSE, v |-> NilPtr]
    ELSE [ok |-> StrOk(o["channel"].o, "tag"),
          v |-> [t |-> "Channel", Tag |-> StrVal(o["channel"].o, "tag")]]

DecodeSubscription(v) ==
    IF v.k = "null" THEN [ok |-> TRUE, v |-> NilPtr]
    ELSE IF v.k # "obj" THEN [ok |-> FALSE, v |-> NilPtr]
    ELSE [ok |-> StrOk(v.o, "iden") /\ DecodeChannel(v.o).ok,
          v |-> [t |-> "Subscription", Iden |-> StrVal(v.o, "iden"),
                 Channel |-> DecodeChannel(v.o).v, Client |-> NilClient]]

\* Decode into subscriptionResponse
DecodeSubscriptionResponse(body) ==
    IF body.k = "null" THEN [ok |-> TRUE, Subscriptions |-> <<>>]
    ELSE IF body.k # "obj" THEN [ok |-> FALSE, Subscriptions |-> <<>>]
    ELSE IF "subscriptions" \notin DOMAIN body.o \/ body.o["subscriptions"].k = "null"
         THEN [ok |-> TRUE, Subscriptions |-> <<>>]
    ELSE IF body.o["subscriptions"].k # "arr" THEN [ok |-> FALSE, Subscriptions |-> <<>>]
    ELSE LET a == body.o["subscriptions"].a
         IN  [ok |-> \A i \in 1..Len(a) : DecodeSubscription(a[i]).ok,
              Subscriptions |-> [i \in 1..Len(a) |-> DecodeSubscription(a[i]).v]]

\* Decode into User
DecodeUser(body) ==
    IF body.k = "null" THEN [ok |-> TRUE, v |-> [t |-> "User", Iden |-> ""]]
    ELSE IF body.k # "obj" THEN [ok |-> FALSE, v |-> NilPtr]
    ELSE [ok |-> StrOk(body.o, "iden"), v |-> [t |-> "User", Iden |-> StrVal(body.o, "iden")]]

\* json.Unmarshal into a Note: each field is read from the member its tag names
DecodeNote(body) ==
    IF body.k = "null" THEN [ok |-> TRUE, v |-> Note("", "", "", "") ]
    ELSE IF body.k # "obj" THEN [ok |-> FALSE, v |-> NilPtr]
    ELSE [ok |-> \A t \in NoteTags : StrOk(body.o, t[1]),
          v |-> [f \in {"struct"} \cup {t[2] : t \in NoteTags} |->
                   IF f = "struct" THEN "Note"
                   ELSE StrVal(body.o, (CHOOSE t \in NoteTags : t[2] = f)[1])]]

\* ------------------------------------------------------------------------
\* Errors
\* ------------------------------------------------------------------------
NoError == [kind |-> "nil"]
ErrDeviceNotFound == [kind |-> "ErrDeviceNotFound", text |-> ErrDeviceNotFoundText]
TransportError == [kind |-> "transport", text |-> "transport error"]
ContextCanceled == [kind |-> "canceled", text |-> "context canceled"]
JSONError == [kind |-> "json", text |-> "json: cannot decode"]
BodyCloseError == [kind |-> "close", text |-> "close failed"]

\* &errjson.ErrResponse
ErrResponse(e) == [kind |-> "ErrResponse", Type |-> e.Type, Message |-> e.Message, Cat |-> e.Cat]

\* errors.New(text)
NewError(text) == [kind |-> "errorString", text |-> text]

\* fmt.Errorf("Unable to close connection to PushBullet: %w", closeErr)
Errorf(closeErr) ==
    [kind |-> "wrapError", text |-> CloseErrPrefix \o closeErr.text, wraps |-> closeErr.kind]

\* as Error, but an ErrResponse shows its type
Error_ShowsType(e) == IF e.kind = "ErrResponse" THEN e.Type ELSE e.text

\* err.Error()
Error(e) == IF e.kind = "ErrResponse" THEN e.Message ELSE e.text

\* ------------------------------------------------------------------------
\* What the transport can answer
\* ------------------------------------------------------------------------
StatusCodes == {200, 201, 404, 500}

\* resp.Status as the server sent it
StatusLine(code) ==
    IF code = 200 THEN "200 OK"
    ELSE IF code = 201 THEN "201 Created"
    ELSE IF code = 404 THEN "404 Not Found"
    ELSE "500 Internal Server Error"

DeviceObject(iden, nickname) ==
    JObj([n \in {"iden", "nickname"} |-> IF n = "iden" THEN JStr(iden) ELSE JStr(nickname)])

\* two devices share the nickname "n1"; null is a null array element
DeviceEntries == {DeviceObject("d1", "n1"), DeviceObject("d2", "n1"), DeviceObject("d3", "n2"), JNull}

DeviceBodies ==
    { JObj([n \in {"devices", "shared_devices"} |-> IF n = "devices" THEN JArr(a) ELSE JArr(b)]) :
        a \in SeqsUpTo(DeviceEntries, MaxOwned), b \in SeqsUpTo(DeviceEntries, MaxShared) }

SubscriptionObject(iden, tag) ==
    JObj([n \in {"iden", "channel"} |->
            IF n = "iden" THEN JStr(iden) ELSE JObj([m \in {"tag"} |-> JStr(tag)])])

\* two subscriptions share the channel tag "t1"; one entry has no channel; null is a null element
SubscriptionEntries ==
    { SubscriptionObject("s1", "t1"), SubscriptionObject("s2", "t1"), SubscriptionObject("s3", "t2"),
      JObj([n \in {"iden"} |-> JStr("s4")]), JNull }

SubscriptionBodies ==
    { JObj([n \in {"subscriptions"} |-> JArr(a)]) : a \in SeqsUpTo(SubscriptionEntries, MaxSubs) }

UserBodies == { JObj([n \in {"iden"} |-> JStr("u1")]) }

\* bodies that are not JSON, or JSON of another shape
GenericBodies == {JSyntax, JNull, JNum, JObj(NoMembers)}

ErrorObject(t, m, c) ==
    JObj([n \in {"error"} |->
            JObj([f \in {"type", "message", "cat"} |->
                    IF f = "type" THEN t ELSE IF f = "message" THEN m ELSE c])])

\* the API error shape, and objects with an "error" member of another shape
ShapedErrorBodies == { ErrorObject(JStr("ty"), JStr(m), JStr("ca")) : m \in {"m1", "m2"} }

ErrorBodies ==
    ShapedErrorBodies \cup
    { ErrorObject(JStr("ty"), JNum, JStr("ca")),
      JObj([n \in {"error"} |-> JNull]),
      JObj([n \in {"error"} |-> JNum]),
      JObj([n \in {"error"} |-> JObj(NoMembers)]) }

\* the bodies a 200 response to the call's endpoint may carry
OKBodies(op) ==
    GenericBodies \cup
    ( IF op \in {"Devices", "Device"} THEN DeviceBodies
      ELSE IF op \in {"Subscriptions", "Subscription"} THEN SubscriptionBodies
      ELSE IF op = "Me" THEN UserBodies
      ELSE {} )

Response(code, body, closeFails) ==
    [err |-> NoError, StatusCode |-> code, Status |-> StatusLine(code), Body |-> body,
     closeFails |-> closeFails]

NoResponse == [err |-> NoError, StatusCode |-> 0, Status |-> "", Body |-> JSyntax, closeFails |-> FALSE]

\* client.Client.Do failed: no response
Failed == [NoResponse EXCEPT !.err = TransportError]
Canceled == [NoResponse EXCEPT !.err = ContextCanceled]

Responses(op) ==
    {Failed, Canceled} \cup
    { Response(200, b, cf) : b \in OKBodies(op), cf \in BOOLEAN } \cup
    { Response(code, b, cf) : code \in StatusCodes \ {200}, b \in GenericBodies \cup ErrorBodies,
                              cf \in BOOLEAN }

\* ------------------------------------------------------------------------
\* The operations, as functions of the response the transport gave
\* ------------------------------------------------------------------------
\* what a call hands back: a list, an entity, an error; or it panicked
Ret(list, ent, err) == [list |-> list, ent |-> ent, err |-> err, panic |-> FALSE]
Panic == [list |-> <<>>, ent |-> NilPtr, err |-> NoError, panic |-> TRUE]

HasNil(list) == \E i \in 1..Len(list) : list[i] = NilPtr

\* for i := range list { list[i].Client = client }
SetClient(list) == [i \in 1..Len(list) |-> [list[i] EXCEPT !.Client = ThisClient]]

\* as StatusError, but a body that does not decode is reported as the decoding error
StatusError_DecodeError(resp) ==
    LET errjson == DecodeErrorResponse(resp.Body)
    IN  IF errjson.ok THEN ErrResponse(errjson.v) ELSE JSONError

\* the branch resp.StatusCode != http.StatusOK, the same in all four operations
StatusError(resp) ==
    LET errjson == DecodeErrorResponse(resp.Body)
    IN  IF errjson.ok THEN ErrResponse(errjson.v) ELSE NewError(resp.Status)

\* as DevicesBody, but the shared devices come first
DevicesBody_SharedFirst(resp) ==
    IF resp.StatusCode # StatusOK THEN Ret(<<>>, NilPtr, StatusError(resp))
    ELSE LET devResp == DecodeDeviceResponse(resp.Body)
         IN  IF ~devResp.ok THEN Ret(<<>>, NilPtr, JSONError)
             ELSE IF HasNil(devResp.Devices) THEN Panic
             ELSE Ret(devResp.SharedDevices \o SetClient(devResp.Devices), NilPtr, NoError)

\* DevicesWithContext from the status check to its return statement
DevicesBody(resp) ==
    IF resp.StatusCode # StatusOK THEN Ret(<<>>, NilPtr, StatusError(resp))
    ELSE LET devResp == DecodeDeviceResponse(resp.Body)
         IN  IF ~devResp.ok THEN Ret(<<>>, NilPtr, JSONError)
             ELSE IF HasNil(devResp.Devices) THEN Panic
             ELSE Ret(SetClient(devResp.Devices) \o devResp.SharedDevices, NilPtr, NoError)

\* DevicesWithContext once client.Client.Do has answered, with its deferred Body.Close
DevicesWithContext(resp) ==
    IF resp.err # NoError THEN Ret(<<>>, NilPtr, resp.err)
    ELSE LET r == DevicesBody(resp)
         IN  IF r.panic THEN r
             ELSE IF resp.closeFails THEN Ret(<<>>, NilPtr, Errorf(BodyCloseError))
             ELSE r

\* as FindDevice, but the device found keeps the Client it had in the listing
RECURSIVE FindDevice_ClientNotSet(_, _, _)
FindDevice_ClientNotSet(devices, i, nickname) ==
    IF i > Len(devices) THEN Ret(<<>>, NilPtr, ErrDeviceNotFound)
    ELSE IF devices[i] = NilPtr THEN Panic
    ELSE IF devices[i].Nickname = nickname THEN Ret(<<>>, devices[i], NoError)
    ELSE FindDevice_ClientNotSet(devices, i + 1, nickname)

\* as FindDevice, but a miss is reported with a new error of the same text
RECURSIVE FindDevice_NewErrorOnMiss(_, _, _)
FindDevice_NewErrorOnMiss(devices, i, nickname) ==
    IF i > Len(devices) THEN Ret(<<>>, NilPtr, NewError(ErrDeviceNotFoundText))
    ELSE IF devices[i] = NilPtr THEN Panic
    ELSE IF devices[i].Nickname = nickname
         THEN Ret(<<>>, [devices[i] EXCEPT !.Client = ThisClient], NoError)
    ELSE FindDevice_NewErrorOnMiss(devices, i + 1, nickname)

\* the loop of DeviceWithContext from index i on
RECURSIVE FindDevice(_, _, _)
FindDevice(devices, i, nickname) ==
    IF i > Len(devices) THEN Ret(<<>>, NilPtr, ErrDeviceNotFound)
    ELSE IF devices[i] = NilPtr THEN Panic
    ELSE IF devices[i].Nickname = nickname
         THEN Ret(<<>>, [devices[i] EXCEPT !.Client = ThisClient], NoError)
    ELSE FindDevice(devices, i + 1, nickname)

DeviceWithContext(resp, nickname) ==
    LET r == DevicesWithContext(resp)
    IN  IF r.panic THEN r
        ELSE IF r.err # NoError THEN Ret(<<>>, NilPtr, r.err)
        ELSE FindDevice(r.list, 1, nickname)

\* as MeBody, but a body that does not decode gives a zero User and no error
MeBody_SwallowsDecodeError(resp) ==
    IF resp.StatusCode # StatusOK THEN Ret(<<>>, NilPtr, StatusError(resp))
    ELSE LET userResponse == DecodeUser(resp.Body)
         IN  IF ~userResponse.ok THEN Ret(<<>>, [t |-> "User", Iden |-> ""], NoError)
             ELSE Ret(<<>>, userResponse.v, NoError)

MeBody(resp) ==
    IF resp.StatusCode # StatusOK THEN Ret(<<>>, NilPtr, StatusError(resp))
    ELSE LET userResponse == DecodeUser(resp.Body)
         IN  IF ~userResponse.ok THEN Ret(<<>>, NilPtr, JSONError)
             ELSE Ret(<<>>, userResponse.v, NoError)

\* as MeWithContext, but a failure of the transport is reported as one and the same error
MeWithContext_OneTransportError(resp) ==
    IF resp.err # NoError THEN Ret(<<>>, NilPtr, TransportError)
    ELSE IF resp.closeFails THEN [MeBody(resp) EXCEPT !.err = Errorf(BodyCloseError)]
    ELSE MeBody(resp)

MeWithContext(resp) ==
    IF resp.err # NoError THEN Ret(<<>>, NilPtr, resp.err)
    ELSE IF resp.closeFails THEN [MeBody(resp) EXCEPT !.err = Errorf(BodyCloseError)]
    ELSE MeBody(resp)

\* as PushBody, but status 201 is a success too
PushBody_Accepts201(resp) ==
    IF resp.StatusCode \notin {StatusOK, 201} THEN Ret(<<>>, NilPtr, StatusError(resp))
    ELSE Ret(<<>>, NilPtr, NoError)

PushBody(resp) ==
    IF resp.StatusCode # StatusOK THEN Ret(<<>>, NilPtr, StatusError(resp))
    ELSE Ret(<<>>, NilPtr, NoError)

\* as PushWithContext, but the error of Body.Close is dropped
PushWithContext_IgnoresClose(resp) ==
    IF resp.err # NoError THEN Ret(<<>>, NilPtr, resp.err)
    ELSE PushBody(resp)

PushWithContext(resp) ==
    IF resp.err # NoError THEN Ret(<<>>, NilPtr, resp.err)
    ELSE IF resp.closeFails THEN [PushBody(resp) EXCEPT !.err = Errorf(BodyCloseError)]
    ELSE PushBody(resp)

SubscriptionsBody(resp) ==
    IF resp.StatusCode # StatusOK THEN Ret(<<>>, NilPtr, StatusError(resp))
    ELSE LET subResp == DecodeSubscriptionResponse(resp.Body)
         IN  IF ~subResp.ok THEN Ret(<<>>, NilPtr, JSONError)
             ELSE IF HasNil(subResp.Subscriptions) THEN Panic
             ELSE Ret(SetClient(subResp.Subscriptions), NilPtr, NoError)

SubscriptionsWithContext(resp) ==
    IF resp.err # NoError THEN Ret(<<>>, NilPtr, resp.err)
    ELSE LET r == SubscriptionsBody(resp)
         IN  IF r.panic THEN r
             ELSE IF resp.closeFails THEN [r EXCEPT !.err = Errorf(BodyCloseError)]
             ELSE r

\* the loop of SubscriptionWithContext from index i on: subs[i].Channel.Tag
RECURSIVE FindSubscription(_, _, _)
FindSubscription(subs, i, tag) ==
    IF i > Len(subs) THEN Ret(<<>>, NilPtr, ErrDeviceNotFound)
    ELSE IF subs[i] = NilPtr THEN Panic
    ELSE IF subs[i].Channel = NilPtr THEN Panic
    ELSE IF subs[i].Channel.Tag = tag
         THEN Ret(<<>>, [subs[i] EXCEPT !.Client = ThisClient], NoError)
    ELSE FindSubscription(subs, i + 1, tag)

SubscriptionWithContext(resp, tag) ==
    LET r == SubscriptionsWithContext(resp)
    IN  IF r.panic THEN r
        ELSE IF r.err # NoError THEN Ret(<<>>, NilPtr, r.err)
        ELSE FindSubscription(r.list, 1, tag)

\* ------------------------------------------------------------------------
\* State
\* ------------------------------------------------------------------------
VARIABLES
    client,     \* the Client: Key, Client (the HTTP client), Endpoint.URL
    pc,         \* "idle", "built", "responded", "done"
    call,       \* the operation in progress and its arguments
    req,        \* the request buildRequest made
    resp,       \* what client.Client.Do answered
    ret,        \* what the operation returned
    sent,       \* requests handed to the transport by this call
    closed,     \* Body.Close calls of this call
    goroutines  \* the calls that run concurrently on the Client, each with its own locals

vars == <<client, pc, call, req, resp, ret, sent, closed, goroutines>>

\* argument values
\* the contexts a caller gives: context.Background() or one of its own
Contexts == {Background, "ctx"}
Nicknames == {"n1", "n0"}
ChannelTags == {"t1", "t0"}
Idens == {AllDevices, "d1"}
Tags == {"", "t1"}
Titles == {"", "T"}
Texts == {"", "B"}
URLs == {"", "U"}

PushOps == {"Push", "PushNote", "PushLink", "PushNoteToChannel", "PushLinkToChannel", "PushSMS",
            "Device.PushNote", "Device.PushLink", "Device.PushSMS",
            "Subscription.PushNote", "Subscription.PushLink"}

NoArgs == [n \in {} |-> ""]
NoCall == [op |-> "none", args |-> NoArgs, object |-> "", data |-> NoData]
NoRequest == [Method |-> "", URL |-> "", Header |-> NoArgs, Body |-> NoBody, ctx |-> ""]
NoRet == Ret(<<>>, NilPtr, NoError)

\* the goroutines that call the Client at the same time
Goroutines == 1..NumGoroutines

\* the locals of a call: the request, the response, the decoded slices and the loop index of
\* DevicesWithContext, the named results
IdleGoroutine ==
    [pc |-> "idle", call |-> NoCall, req |-> NoRequest, resp |-> NoResponse,
     devices |-> <<>>, shared |-> <<>>, i |-> 0, ret |-> NoRet]

\* New(apikey)
New(apikey) == [Key |-> apikey, Client |-> "http.DefaultClient", URL |-> EndpointURL]

Init ==
    /\ client \in {New(apikey) : apikey \in Keys}
    /\ pc = "idle"
    /\ call = NoCall
    /\ req = NoRequest
    /\ resp = NoResponse
    /\ ret = NoRet
    /\ sent = 0
    /\ closed = 0
    /\ goroutines = [g \in Goroutines |-> IdleGoroutine]

\* the call panics before it has a request: buildRequest could not parse the URL, or a nil
\* *Client or a nil *Channel is dereferenced
Abort(op, args) ==
    /\ call' = [op |-> op, args |-> args, object |-> "", data |-> NoData]
    /\ req' = NoRequest
    /\ resp' = NoResponse
    /\ ret' = Panic
    /\ pc' = "done"
    /\ sent' = 0
    /\ closed' = 0
    /\ UNCHANGED <<client, goroutines>>

\* as Begin, but the path is appended to the Endpoint.URL of the Client
Begin_AppendsToEndpoint(op, args, ctx, object, data) ==
    /\ call' = [op |-> op, args |-> args, object |-> object, data |-> data]
    /\ req' = buildRequest(client, ctx, object, data)
    /\ pc' = "built"
    /\ resp' = NoResponse
    /\ ret' = NoRet
    /\ sent' = 0
    /\ closed' = 0
    /\ client' = [client EXCEPT !.URL = client.URL \o object]
    /\ UNCHANGED goroutines

\* an operation starts: it builds its request with the context ctx (the caller checked pc)
Begin(op, args, ctx, object, data) ==
    IF ParseFails(client.URL \o object)
    THEN Abort(op, args)
    ELSE /\ call' = [op |-> op, args |-> args, object |-> object, data |-> data]
         /\ req' = buildRequest(client, ctx, object, data)
         /\ pc' = "built"
         /\ resp' = NoResponse
         /\ ret' = NoRet
         /\ sent' = 0
         /\ closed' = 0
         /\ UNCHANGED <<client, goroutines>>

\* Devices() is DevicesWithContext(context.Background()), and so for every operation of the
\* Client: args.ctx is the context the caller gave
Devices ==
    /\ pc = "idle"
    /\ \E ctx \in Contexts : Begin("Devices", [ctx |-> ctx], ctx, "/devices", NoData)

Device ==
    /\ pc = "idle"
    /\ \E ctx \in Contexts, nickname \in Nicknames :
           Begin("Device", [ctx |-> ctx, nickname |-> nickname], ctx, "/devices", NoData)

Me ==
    /\ pc = "idle"
    /\ \E ctx \in Contexts : Begin("Me", [ctx |-> ctx], ctx, "/users/me", NoData)

Subscriptions ==
    /\ pc = "idle"
    /\ \E ctx \in Contexts : Begin("Subscriptions", [ctx |-> ctx], ctx, "/subscriptions", NoData)

Subscription ==
    /\ pc = "idle"
    /\ \E ctx \in Contexts, tag \in ChannelTags :
           Begin("Subscription", [ctx |-> ctx, tag |-> tag], ctx, "/subscriptions", NoData)

\* the typed push methods of the Client: the endpoint and the payload they hand to Push
PushNoteWithContext(iden, title, body) ==
    [endPoint |-> "/pushes", data |-> Note(iden, "", title, body)]

PushNoteToChannelWithContext(tag, title, body) ==
    [endPoint |-> "/pushes", data |-> Note("", tag, title, body)]

PushLinkWithContext(iden, title, u, body) ==
    [endPoint |-> "/pushes", data |-> Link(iden, "", title, u, body)]

PushLinkToChannelWithContext(tag, title, u, body) ==
    [endPoint |-> "/pushes", data |-> Link("", tag, title, u, body)]

PushSMSWithContext(userIden, deviceIden, phoneNumber, message) ==
    [endPoint |-> "/ephemerals", data |-> Ephemeral(EphemeralPush(userIden, deviceIden, phoneNumber, message))]

PushNote ==
    /\ pc = "idle"
    /\ \E ctx \in Contexts, iden \in Idens, title \in Titles, body \in Texts :
           LET p == PushNoteWithContext(iden, title, body)
           IN  Begin("PushNote", [ctx |-> ctx, iden |-> iden, title |-> title, body |-> body],
                     ctx, p.endPoint, p.data)

PushNoteToChannel ==
    /\ pc = "idle"
    /\ \E ctx \in Contexts, tag \in Tags, title \in Titles, body \in Texts :
           LET p == PushNoteToChannelWithContext(tag, title, body)
           IN  Begin("PushNoteToChannel", [ctx |-> ctx, tag |-> tag, title |-> title, body |-> body],
                     ctx, p.endPoint, p.data)

PushLink ==
    /\ pc = "idle"
    /\ \E ctx \in Contexts, iden \in Idens, title \in Titles, u \in URLs, body \in Texts :
           LET p == PushLinkWithContext(iden, title, u, body)
           IN  Begin("PushLink", [ctx |-> ctx, iden |-> iden, title |-> title, u |-> u, body |-> body],
                     ctx, p.endPoint, p.data)

PushLinkToChannel ==
    /\ pc = "idle"
    /\ \E ctx \in Contexts, tag \in Tags, title \in Titles, u \in URLs, body \in Texts :
           LET p == PushLinkToChannelWithContext(tag, title, u, body)
           IN  Begin("PushLinkToChannel",
                     [ctx |-> ctx, tag |-> tag, title |-> title, u |-> u, body |-> body],
                     ctx, p.endPoint, p.data)

PushSMS ==
    /\ pc = "idle"
    /\ \E ctx \in Contexts, deviceIden \in Idens, message \in Texts :
           LET p == PushSMSWithContext("u1", deviceIden, "p1", message)
           IN  Begin("PushSMS",
                     [ctx |-> ctx, userIden |-> "u1", deviceIden |-> deviceIden, phoneNumber |-> "p1",
                      message |-> message],
                     ctx, p.endPoint, p.data)

\* the generic Push with a payload of the caller's making
Push ==
    /\ pc = "idle"
    /\ \E ctx \in Contexts, endPoint \in {"/pushes", "/ephemerals", "/%zz"},
          data \in {Note("d1", "t1", "T", "B"), Note("", "", InvalidUTF8, "B"), Unserializable} :
           Begin("Push", [ctx |-> ctx, endPoint |-> endPoint], ctx, endPoint, data)

\* the methods of a Device and of a Subscription: the context and the push they forward to
\* the Client (the non-context method of the Client is called: ctx is not passed on)
\* as DevicePushNoteWithContext, but the nickname of the device is forwarded
DevicePushNoteWithContext_ByNickname(device, ctx, title, body) ==
    [ctx |-> Background, push |-> PushNoteWithContext(device.Nickname, title, body)]

DevicePushNoteWithContext(device, ctx, title, body) ==
    [ctx |-> Background, push |-> PushNoteWithContext(device.Iden, title, body)]

DevicePushLinkWithContext(device, ctx, title, u, body) ==
    [ctx |-> Background, push |-> PushLinkWithContext(device.Iden, title, u, body)]

DevicePushSMSWithContext(device, ctx, deviceIden, phoneNumber, message) ==
    [ctx |-> Background, push |-> PushSMSWithContext(device.Iden, deviceIden, phoneNumber, message)]

SubscriptionPushNoteWithContext(subscription, ctx, title, body) ==
    [ctx |-> Background, push |-> PushNoteToChannelWithContext(subscription.Channel.Tag, title, body)]

SubscriptionPushLinkWithContext(subscription, ctx, title, u, body) ==
    [ctx |-> Background, push |-> PushLinkToChannelWithContext(subscription.Channel.Tag, title, u, body)]

\* the entities the caller holds once a call has returned
Held == IF pc = "done" /\ ~ret.panic
        THEN {ret.list[i] : i \in 1..Len(ret.list)} \cup {ret.ent}
        ELSE {}
HeldDevices == {d \in Held : d.t = "Device"}
HeldSubscriptions == {s \in Held : s.t = "Subscription"}

\* the bound method forwards f to the Client the entity refers to
Forward(op, args, entity, f) ==
    IF entity.Client = NilClient
    THEN Abort(op, args)
    ELSE Begin(op, args, f.ctx, f.push.endPoint, f.push.data)

DevicePushNote ==
    /\ pc = "done"
    /\ \E device \in HeldDevices, ctx \in Contexts, title \in Titles, body \in Texts :
           Forward("Device.PushNote", [ctx |-> ctx, device |-> device, title |-> title, body |-> body],
                   device, DevicePushNoteWithContext(device, ctx, title, body))

DevicePushLink ==
    /\ pc = "done"
    /\ \E device \in HeldDevices, ctx \in Contexts, u \in URLs, body \in Texts :
           Forward("Device.PushLink",
                   [ctx |-> ctx, device |-> device, title |-> "T", u |-> u, body |-> body],
                   device, DevicePushLinkWithContext(device, ctx, "T", u, body))

DevicePushSMS ==
    /\ pc = "done"
    /\ \E device \in HeldDevices, ctx \in Contexts, deviceIden \in Idens :
           Forward("Device.PushSMS",
                   [ctx |-> ctx, device |-> device, deviceIden |-> deviceIden, phoneNumber |-> "p1",
                    message |-> "B"],
                   device, DevicePushSMSWithContext(device, ctx, deviceIden, "p1", "B"))

SubscriptionPushNote ==
    /\ pc = "done"
    /\ \E subscription \in HeldSubscriptions, ctx \in Contexts, title \in Titles, body \in Texts :
           LET args == [ctx |-> ctx, subscription |-> subscription, title |-> title, body |-> body]
           IN  IF subscription.Channel = NilPtr
               THEN Abort("Subscription.PushNote", args)
               ELSE Forward("Subscription.PushNote", args, subscription,
                            SubscriptionPushNoteWithContext(subscription, ctx, title, body))

SubscriptionPushLink ==
    /\ pc = "done"
    /\ \E subscription \in HeldSubscriptions, ctx \in Contexts, u \in URLs, body \in Texts :
           LET args == [ctx |-> ctx, subscription |-> subscription, title |-> "T", u |-> u,
                        body |-> body]
           IN  IF subscription.Channel = NilPtr
               THEN Abort("Subscription.PushLink", args)
               ELSE Forward("Subscription.PushLink", args, subscription,
                            SubscriptionPushLinkWithContext(subscription, ctx, "T", u, body))

\* as Do, but a request the transport failed is handed to it again
Do_RetriesOnError ==
    /\ pc = "built"
    /\ \E r \in Responses(call.op) :
           /\ resp' = r
           /\ pc' = IF r.err # NoError /\ sent = 0 THEN "built" ELSE "responded"
    /\ sent' = sent + 1
    /\ UNCHANGED <<client, call, req, ret, closed, goroutines>>

\* client.Client.Do(req): the transport fails or answers
Do ==
    /\ pc = "built"
    /\ \E r \in Responses(call.op) : resp' = r
    /\ sent' = sent + 1
    /\ pc' = "responded"
    /\ UNCHANGED <<client, call, req, ret, closed, goroutines>>

\* as Finish, but the body is closed only on the path of a 200 response
Finish_ClosesOnSuccessOnly(r) ==
    /\ pc = "responded"
    /\ ret' = r
    /\ closed' = IF resp.err = NoError /\ resp.StatusCode = StatusOK THEN closed + 1 ELSE closed
    /\ pc' = "done"
    /\ UNCHANGED <<client, call, req, resp, sent, goroutines>>

\* the rest of the operation: it returns r having closed the body if there was a response
Finish(r) ==
    /\ pc = "responded"
    /\ ret' = r
    /\ closed' = IF resp.err = NoError THEN closed + 1 ELSE closed
    /\ pc' = "done"
    /\ UNCHANGED <<client, call, req, resp, sent, goroutines>>

ReturnDevices == call.op = "Devices" /\ Finish(DevicesWithContext(resp))

ReturnDevice == call.op = "Device" /\ Finish(DeviceWithContext(resp, call.args.nickname))

ReturnMe == call.op = "Me" /\ Finish(MeWithContext(resp))

ReturnSubscriptions == call.op = "Subscriptions" /\ Finish(SubscriptionsWithContext(resp))

ReturnSubscription == call.op = "Subscription" /\ Finish(SubscriptionWithContext(resp, call.args.tag))

ReturnPush == call.op \in PushOps /\ Finish(PushWithContext(resp))

\* the caller has the result; the client is ready for the next call
Done ==
    /\ pc = "done"
    /\ pc' = "idle"
    /\ call' = NoCall
    /\ req' = NoRequest
    /\ resp' = NoResponse
    /\ ret' = NoRet
    /\ sent' = 0
    /\ closed' = 0
    /\ UNCHANGED <<client, goroutines>>

Next ==
    \/ Devices \/ Device \/ Me \/ Subscriptions \/ Subscription
    \/ PushNote \/ PushNoteToChannel \/ PushLink \/ PushLinkToChannel \/ PushSMS \/ Push
    \/ DevicePushNote \/ DevicePushLink \/ DevicePushSMS
    \/ SubscriptionPushNote \/ SubscriptionPushLink
    \/ Do
    \/ ReturnDevices \/ ReturnDevice \/ ReturnMe \/ ReturnSubscriptions \/ ReturnSubscription
    \/ ReturnPush
    \/ Done

Spec == Init /\ [][Next]_vars

\* ------------------------------------------------------------------------
\* Concurrent calls on one Client: every call runs in its own goroutine, statement by
\* statement; the Client and the transport are all that the goroutines share
\* ------------------------------------------------------------------------
ConcCalls ==
    { [op |-> "Devices", args |-> [ctx |-> Background], object |-> "/devices", data |-> NoData],
      [op |-> "Device", args |-> [ctx |-> Background, nickname |-> "n1"], object |-> "/devices",
       data |-> NoData],
      [op |-> "PushNote", args |-> [ctx |-> Background, iden |-> "d1", title |-> "T", body |-> "B"],
       object |-> "/pushes", data |-> Note("d1", "", "T", "B")] }

DeviceListing(owned, shared) ==
    JObj([n \in {"devices", "shared_devices"} |-> IF n = "devices" THEN JArr(owned) ELSE JArr(shared)])

ConcResponses(op) ==
    IF op \in PushOps
    THEN {Failed, Response(200, JNull, FALSE), Response(500, JSyntax, TRUE)}
    ELSE {Failed, Response(500, JSyntax, FALSE),
          Response(200, DeviceListing(<<DeviceObject("d1", "n1")>>, <<DeviceObject("d2", "n1")>>), FALSE),
          Response(200, DeviceListing(<<DeviceObject("d1", "n1")>>, <<DeviceObject("d2", "n1")>>), TRUE),
          Response(200, DeviceListing(<<>>, <<DeviceObject("d1", "n1")>>), FALSE)}

InitConc ==
    /\ client = New(<<97>>)
    /\ pc = "idle"
    /\ call = NoCall
    /\ req = NoRequest
    /\ resp = NoResponse
    /\ ret = NoRet
    /\ sent = 0
    /\ closed = 0
    /\ goroutines = [g \in Goroutines |-> IdleGoroutine]

\* the goroutine p goes on with the locals g
Step(p, g) ==
    /\ goroutines' = [goroutines EXCEPT ![p] = g]
    /\ UNCHANGED <<client, pc, call, req, resp, ret, sent, closed>>

\* the goroutine calls an operation, which builds its request
GoCall(p) ==
    /\ goroutines[p].pc = "idle"
    /\ \E c \in ConcCalls :
           Step(p, [goroutines[p] EXCEPT !.pc = "built", !.call = c,
                                         !.req = buildRequest(client, c.args.ctx, c.object, c.data)])

\* client.Client.Do(req): the transport answers the request of this goroutine
GoDo(p) ==
    /\ goroutines[p].pc = "built"
    /\ \E r \in ConcResponses(goroutines[p].call.op) :
           Step(p, [goroutines[p] EXCEPT !.pc = "responded", !.resp = r])

\* from the error check of Do to the end of decoding
GoHandle(p) ==
    /\ goroutines[p].pc = "responded"
    /\ LET g == goroutines[p]
           r == g.resp
           devResp == DecodeDeviceResponse(r.Body)
       IN  Step(p,
               IF r.err # NoError
               THEN [g EXCEPT !.pc = "returned", !.ret = Ret(<<>>, NilPtr, r.err)]
               ELSE IF g.call.op \in PushOps
               THEN [g EXCEPT !.pc = "closing", !.ret = PushBody(r)]
               ELSE IF r.StatusCode # StatusOK
               THEN [g EXCEPT !.pc = "closing", !.ret = Ret(<<>>, NilPtr, StatusError(r))]
               ELSE IF ~devResp.ok
               THEN [g EXCEPT !.pc = "closing", !.ret = Ret(<<>>, NilPtr, JSONError)]
               ELSE [g EXCEPT !.pc = "loop", !.devices = devResp.Devices,
                              !.shared = devResp.SharedDevices, !.i = 1])

\* as GoLoop, but the decoded slice is one that all calls share: the Client is also set on
\* entry i of the slice another call returned
GoLoop_SharedSlice(p) ==
    /\ goroutines[p].pc = "loop"
    /\ LET g == goroutines[p]
           mine == IF g.i > Len(g.devices)
                   THEN [g EXCEPT !.pc = "closing", !.ret = Ret(g.devices \o g.shared, NilPtr, NoError)]
                   ELSE IF g.devices[g.i] = NilPtr
                   THEN [g EXCEPT !.pc = "closing", !.ret = Panic]
                   ELSE [g EXCEPT !.devices[g.i].Client = ThisClient, !.i = g.i + 1]
       IN  goroutines' = [q \in Goroutines |->
               IF q = p THEN mine
               ELSE IF g.i <= Len(goroutines[q].ret.list)
               THEN [goroutines[q] EXCEPT !.ret.list[g.i].Client = ThisClient]
               ELSE goroutines[q]]
    /\ UNCHANGED <<client, pc, call, req, resp, ret, sent, closed>>

\* one turn of the loop that sets the Client of the owned devices, then the append
GoLoop(p) ==
    /\ goroutines[p].pc = "loop"
    /\ LET g == goroutines[p]
       IN  Step(p,
               IF g.i > Len(g.devices)
               THEN [g EXCEPT !.pc = "closing", !.ret = Ret(g.devices \o g.shared, NilPtr, NoError)]
               ELSE IF g.devices[g.i] = NilPtr
               THEN [g EXCEPT !.pc = "closing", !.ret = Panic]
               ELSE [g EXCEPT !.devices[g.i].Client = ThisClient, !.i = g.i + 1])

\* the deferred Body.Close
GoClose(p) ==
    /\ goroutines[p].pc = "closing"
    /\ LET g == goroutines[p]
       IN  Step(p,
               IF g.ret.panic \/ ~g.resp.closeFails
               THEN [g EXCEPT !.pc = "returned"]
               ELSE IF g.call.op \in PushOps
               THEN [g EXCEPT !.pc = "returned", !.ret.err = Errorf(BodyCloseError)]
               ELSE [g EXCEPT !.pc = "returned", !.ret = Ret(<<>>, NilPtr, Errorf(BodyCloseError))])

\* the call returns to its caller; Device looks its nickname up in the devices it got
GoReturn(p) ==
    /\ goroutines[p].pc = "returned"
    /\ LET g == goroutines[p]
       IN  Step(p,
               IF g.call.op # "Device" \/ g.ret.panic
               THEN [g EXCEPT !.pc = "done"]
               ELSE IF g.ret.err # NoError
               THEN [g EXCEPT !.pc = "done", !.ret = Ret(<<>>, NilPtr, g.ret.err)]
               ELSE [g EXCEPT !.pc = "done", !.ret = FindDevice(g.ret.list, 1, g.call.args.nickname)])

\* the caller has the result; the goroutine makes its next call
GoDone(p) ==
    /\ goroutines[p].pc = "done"
    /\ Step(p, IdleGoroutine)

NextConc ==
    \E p \in Goroutines :
        \/ GoCall(p) \/ GoDo(p) \/ GoHandle(p) \/ GoLoop(p) \/ GoClose(p) \/ GoReturn(p)
        \/ GoDone(p)

SpecConc == InitConc /\ [][NextConc]_vars

\* ------------------------------------------------------------------------
\* Properties
\* ------------------------------------------------------------------------
\* the call has returned to its caller
Returned(op) == pc = "done" /\ call.op = op

\* the transport answered with this status class and the body closed without error
Answered200 == sent > 0 /\ resp.err = NoError /\ resp.StatusCode = 200 /\ ~resp.closeFails
AnsweredNon200 == sent > 0 /\ resp.err = NoError /\ resp.StatusCode # 200 /\ ~resp.closeFails

\* the call returned no value
NoValue == ret.list = <<>> /\ ret.ent = NilPtr

IsArrayOfObjects(body, name) ==
    /\ Has(body, name)
    /\ body.o[name].k = "arr"
    /\ \A i \in 1..Len(body.o[name].a) : body.o[name].a[i].k = "obj"

\* the body is a device listing: two arrays of device objects
ListsDevices(body) == IsArrayOfObjects(body, "devices") /\ IsArrayOfObjects(body, "shared_devices")
OwnedIn(body) == body.o["devices"].a
SharedIn(body) == body.o["shared_devices"].a
ListedDevices(body) == OwnedIn(body) \o SharedIn(body)

\* the Device d carries the iden and nickname of the JSON object j
SameDevice(d, j) == d.t = "Device" /\ d.Iden = j.o["iden"].s /\ d.Nickname = j.o["nickname"].s

\* the body is a subscription listing: an array of subscription objects, each with its channel
ListsSubscriptions(body) ==
    /\ IsArrayOfObjects(body, "subscriptions")
    /\ \A i \in 1..Len(body.o["subscriptions"].a) :
          /\ Has(body.o["subscriptions"].a[i], "channel")
          /\ body.o["subscriptions"].a[i].o["channel"].k = "obj"
ListedSubscriptions(body) == body.o["subscriptions"].a
TagOf(j) == j.o["channel"].o["tag"].s

SameSubscription(sub, j) ==
    sub.t = "Subscription" /\ sub.Iden = j.o["iden"].s /\ sub.Channel # NilPtr /\ sub.Channel.Tag = TagOf(j)

\* C1: a 200 response to GET /devices that lists N owned and M shared devices (and whose body
\* closes without error) makes Devices() return no error and exactly N+M entries: the owned
\* devices in response order, then the shared devices in response order.
C1_DevicesOwnedThenShared ==
    (Returned("Devices") /\ Answered200 /\ ListsDevices(resp.Body)) =>
        LET owned == OwnedIn(resp.Body)
            shared == SharedIn(resp.Body)
        IN  /\ ~ret.panic
            /\ ret.err = NoError
            /\ Len(ret.list) = Len(owned) + Len(shared)
            /\ \A i \in 1..Len(owned) : SameDevice(ret.list[i], owned[i])
            /\ \A j \in 1..Len(shared) : SameDevice(ret.list[Len(owned) + j], shared[j])

\* Devices() has returned a listing of two owned devices followed by a different shared one
C1_Witness ==
    /\ Returned("Devices") /\ Answered200 /\ ListsDevices(resp.Body)
    /\ Len(OwnedIn(resp.Body)) = 2 /\ Len(SharedIn(resp.Body)) = 1
    /\ OwnedIn(resp.Body)[1] # OwnedIn(resp.Body)[2]
    /\ OwnedIn(resp.Body)[2] # SharedIn(resp.Body)[1]
    /\ Len(ret.list) = 3

\* C2: every Device in the list a successful Devices() returns, owned or shared, has its
\* Client back-reference set to the Client Devices() was called on.
C2_EveryDeviceHasClient ==
    (Returned("Devices") /\ ~ret.panic /\ ret.err = NoError) =>
        \A i \in 1..Len(ret.list) : ret.list[i] # NilPtr => ret.list[i].Client = ThisClient

\* C3: when the listing has an entry whose nickname (Device) or channel tag (Subscription)
\* equals the argument, the lookup returns no error and the first such entry in listing
\* order, owned before shared, with its Client back-reference set to the looking-up Client.
C3_LookupFindsFirstMatch ==
    /\ (Returned("Device") /\ Answered200 /\ ListsDevices(resp.Body)) =>
          LET listed == ListedDevices(resp.Body)
              matches == {i \in 1..Len(listed) : listed[i].o["nickname"].s = call.args.nickname}
          IN  matches # {} =>
                LET first == CHOOSE i \in matches : \A j \in matches : i <= j
                IN  /\ ~ret.panic
                    /\ ret.err = NoError
                    /\ SameDevice(ret.ent, listed[first])
                    /\ ret.ent.Client = ThisClient
    /\ (Returned("Subscription") /\ Answered200 /\ ListsSubscriptions(resp.Body)) =>
          LET listed == ListedSubscriptions(resp.Body)
              matches == {i \in 1..Len(listed) : TagOf(listed[i]) = call.args.tag}
          IN  matches # {} =>
                LET first == CHOOSE i \in matches : \A j \in matches : i <= j
                IN  /\ ~ret.panic
                    /\ ret.err = NoError
                    /\ SameSubscription(ret.ent, listed[first])
                    /\ ret.ent.Client = ThisClient

\* Device("n1") has returned the shared device "d2": no owned device is named "n1"
C3_Witness ==
    /\ Returned("Device") /\ Answered200 /\ ListsDevices(resp.Body)
    /\ call.args.nickname = "n1"
    /\ OwnedIn(resp.Body) = <<DeviceObject("d3", "n2"), DeviceObject("d3", "n2")>>
    /\ SharedIn(resp.Body) = <<DeviceObject("d2", "n1")>>
    /\ ret.ent # NilPtr /\ ret.ent.Iden = "d2"

\* C4: when the listing succeeds and no entry has the nickname (Device) or channel tag
\* (Subscription) asked for, the lookup returns a nil entity and the sentinel
\* ErrDeviceNotFound, not a generic error.
C4_LookupMissReturnsSentinel ==
    /\ (Returned("Device") /\ Answered200 /\ ListsDevices(resp.Body)) =>
          LET listed == ListedDevices(resp.Body)
          IN  (\A i \in 1..Len(listed) : listed[i].o["nickname"].s # call.args.nickname) =>
                 ~ret.panic /\ NoValue /\ ret.err = ErrDeviceNotFound
    /\ (Returned("Subscription") /\ Answered200 /\ ListsSubscriptions(resp.Body)) =>
          LET listed == ListedSubscriptions(resp.Body)
          IN  (\A i \in 1..Len(listed) : TagOf(listed[i]) # call.args.tag) =>
                 ~ret.panic /\ NoValue /\ ret.err = ErrDeviceNotFound

\* Subscription("t0") has returned from a listing of two subscriptions with other tags
C4_Witness ==
    /\ Returned("Subscription") /\ Answered200 /\ ListsSubscriptions(resp.Body)
    /\ call.args.tag = "t0"
    /\ Len(ListedSubscriptions(resp.Body)) = 2
    /\ ret.err = ErrDeviceNotFound

\* the request of the call in progress has been handed to the transport
Sent == pc \in {"responded", "done"} /\ sent > 0

\* the payload on the wire has the member
InPayload(name) == Has(req.Body, name)

\* C5: for every API key, also one with ":", "@", "/", "%" or a space in it, the Authorization
\* header of every request buildRequest builds is "Basic " followed by the base64 encoding
\* of exactly key + ":".
C5_AuthorizationIsBase64OfKeyColon ==
    pc # "idle" => req.Header["Authorization"] = BasicPrefix \o EncodeToString(client.Key \o <<58>>)

\* C6: the payload PushNote, PushLink, PushNoteToChannel or PushLinkToChannel sends to /pushes
\* has exactly one of the members device_iden and channel_tag, whatever the arguments.
C6_ExactlyOneTarget ==
    (Sent /\ call.op \in {"PushNote", "PushLink", "PushNoteToChannel", "PushLinkToChannel"}) =>
        (InPayload("device_iden") /\ ~InPayload("channel_tag"))
        \/ (~InPayload("device_iden") /\ InPayload("channel_tag"))

\* C6 as amended: the payload never has both members. PushNote and PushLink send no channel_tag,
\* and device_iden, equal to iden, exactly when iden is not empty; PushNoteToChannel and
\* PushLinkToChannel send no device_iden, and channel_tag, equal to tag, exactly when tag is
\* not empty. So exactly one member is present when the iden or tag is not empty, else neither.
C6_TargetFollowsArgument ==
    /\ (Sent /\ call.op \in {"PushNote", "PushLink"}) =>
          /\ ~InPayload("channel_tag")
          /\ InPayload("device_iden") <=> call.args.iden # ""
          /\ InPayload("device_iden") => req.Body.o["device_iden"] = JStr(call.args.iden)
    /\ (Sent /\ call.op \in {"PushNoteToChannel", "PushLinkToChannel"}) =>
          /\ ~InPayload("device_iden")
          /\ InPayload("channel_tag") <=> call.args.tag # ""
          /\ InPayload("channel_tag") => req.Body.o["channel_tag"] = JStr(call.args.tag)

\* PushLinkToChannel("t1", ..) has sent a payload with channel_tag and without device_iden
C6_Witness ==
    /\ Sent /\ call.op = "PushLinkToChannel" /\ call.args.tag = "t1"
    /\ InPayload("channel_tag") /\ ~InPayload("device_iden")

\* C7: PushNote or PushLink with iden = AllDevices sends to /pushes a payload with neither a
\* device_iden member nor a channel_tag member.
C7_AllDevicesHasNoTarget ==
    (Sent /\ call.op \in {"PushNote", "PushLink"} /\ call.args.iden = AllDevices) =>
        /\ req.Method = "POST"
        /\ req.URL = client.URL \o "/pushes"
        /\ req.Body.k = "obj"
        /\ ~InPayload("device_iden")
        /\ ~InPayload("channel_tag")

\* PushNote(AllDevices, "T", "B") has sent its payload
C7_Witness ==
    /\ Sent /\ call.op = "PushNote" /\ call.args.iden = AllDevices
    /\ call.args.title = "T" /\ call.args.body = "B"
    /\ InPayload("title") /\ InPayload("body")

\* the body has the API error shape {"error": {"type": t, "message": m, "cat": c}}
MatchesErrorShape(body) ==
    /\ Has(body, "error")
    /\ \A f \in {"type", "message", "cat"} : Has(body.o["error"], f) /\ body.o["error"].o[f].k = "str"

\* C8: a non-200 response whose body has the API error shape (and closes without error) makes
\* every operation return no value and an ErrResponse whose Type, Message and Cat are the
\* body's type, message and cat, and whose Error() is the message.
C8_StructuredError ==
    (pc = "done" /\ AnsweredNon200 /\ MatchesErrorShape(resp.Body)) =>
        LET e == resp.Body.o["error"].o
        IN  /\ ~ret.panic
            /\ NoValue
            /\ ret.err.kind = "ErrResponse"
            /\ ret.err.Type = e["type"].s
            /\ ret.err.Message = e["message"].s
            /\ ret.err.Cat = e["cat"].s
            /\ Error(ret.err) = e["message"].s

\* Subscriptions() has returned from a 404 with an error body whose message is "m2"
C8_Witness ==
    /\ Returned("Subscriptions") /\ AnsweredNon200 /\ resp.StatusCode = 404
    /\ MatchesErrorShape(resp.Body) /\ resp.Body.o["error"].o["message"].s = "m2"
    /\ ret.err.kind = "ErrResponse"

\* C9: a non-200 response whose body is not parseable as JSON (and closes without error) makes
\* every operation return no value and a generic error whose text is the response's status line.
C9_StatusLineError ==
    (pc = "done" /\ AnsweredNon200 /\ resp.Body = JSyntax) =>
        /\ ~ret.panic
        /\ NoValue
        /\ ret.err.kind = "errorString"
        /\ Error(ret.err) = resp.Status

\* PushNote has returned from a 500 whose body is not JSON
C9_Witness ==
    /\ Returned("PushNote") /\ AnsweredNon200 /\ resp.StatusCode = 500 /\ resp.Body = JSyntax
    /\ Error(ret.err) = "500 Internal Server Error"

\* C10: a non-200 response whose body is well-formed JSON that does not have the API error
\* shape makes every operation return the generic status-line error, not an ErrResponse.
C10_OnlyShapedBodiesAreStructured ==
    (pc = "done" /\ AnsweredNon200 /\ resp.Body # JSyntax /\ ~MatchesErrorShape(resp.Body)) =>
        /\ ret.err.kind = "errorString"
        /\ Error(ret.err) = resp.Status

\* the transport answered the call that has returned
Answered == pc = "done" /\ sent > 0 /\ resp.err = NoError

\* the body decodes into the value the operation op expects (Push decodes nothing on 200)
Decodes(op, body) ==
    CASE op \in {"Devices", "Device"} -> DecodeDeviceResponse(body).ok
      [] op = "Me" -> DecodeUser(body).ok
      [] op \in {"Subscriptions", "Subscription"} -> DecodeSubscriptionResponse(body).ok
      [] OTHER -> TRUE

\* C11: for Devices, Me and Subscriptions a 200 response whose body is malformed JSON gives no
\* value and a non-nil error, never a successful result; the error is the decode error (when
\* the body closes without error: a failing close is the subject of C12 and C13).
C11_MalformedBodyIsDecodeError ==
    (Answered /\ call.op \in {"Devices", "Me", "Subscriptions"}
              /\ resp.StatusCode = 200 /\ resp.Body = JSyntax) =>
        /\ ~ret.panic
        /\ NoValue
        /\ ret.err # NoError
        /\ ~resp.closeFails => ret.err = JSONError

C11_Witness ==
    /\ Returned("Me") /\ Answered200 /\ resp.Body = JSyntax
    /\ NoValue /\ ret.err = JSONError

\* C12: when the body of a 200 response decoded and closing it fails, the operation returns a
\* non-nil error that wraps the close failure, not success (Devices, Me, Subscriptions, the
\* lookups built on them, and every push).
C12_CloseFailureIsReported ==
    (Answered /\ resp.StatusCode = 200 /\ Decodes(call.op, resp.Body)
              /\ resp.closeFails /\ ~ret.panic) =>
        /\ ret.err # NoError
        /\ ret.err.kind = "wrapError"
        /\ ret.err.wraps = BodyCloseError.kind
        /\ ret.err.text = CloseErrPrefix \o BodyCloseError.text

C12_Witness ==
    /\ Returned("Push") /\ Answered /\ resp.StatusCode = 200 /\ resp.closeFails
    /\ ret.err = Errorf(BodyCloseError)

\* the error the operation determined before its body was closed
PrimaryError(op, r) ==
    IF r.StatusCode # 200 THEN StatusError(r)
    ELSE IF ~Decodes(op, r.Body) THEN JSONError
    ELSE NoError

\* C13: when a primary error (structured, status-line or decode) was determined and closing
\* the body fails too, the error returned is the primary error.
C13_PrimaryErrorWins ==
    (Answered /\ resp.closeFails /\ ~ret.panic /\ PrimaryError(call.op, resp) # NoError) =>
        ret.err = PrimaryError(call.op, resp)

\* C14: when the transport returned a response its body is closed exactly once by the time
\* the operation returns, on every exit path, and not before the response is handled; when the
\* transport returned an error (or no request was made) no body is closed.
C14_BodyClosedExactlyOnce ==
    /\ pc \in {"idle", "built", "responded"} => closed = 0
    /\ pc = "done" => closed = (IF sent > 0 /\ resp.err = NoError THEN 1 ELSE 0)

C14_Witness ==
    /\ Returned("Devices") /\ Answered /\ resp.StatusCode = 500
    /\ ret.err # NoError /\ closed = 1

\* the entity has what its methods dereference: a Client, and a Channel for a Subscription
Usable(entity) ==
    /\ entity.Client # NilClient
    /\ entity.t = "Subscription" => entity.Channel # NilPtr

\* the request the Client itself sends for the push p when called without a context
ClientRequest(p) == buildRequest(client, Background, p.endPoint, p.data)

\* C15: for a Device d and a Subscription s that have a Client (and s a Channel), d.PushNote and
\* d.PushLink send exactly the request that PushNote and PushLink of the Client send for
\* d.Iden, and s.PushNote and s.PushLink exactly the request that PushNoteToChannel and
\* PushLinkToChannel send for s.Channel.Tag: same endpoint, same payload.
C15_BoundPushIsClientPush ==
    LET a == call.args
    IN  /\ (call.op = "Device.PushNote" /\ Usable(a.device)) =>
              /\ req = ClientRequest(PushNoteWithContext(a.device.Iden, a.title, a.body))
              /\ req.URL = client.URL \o "/pushes"
              /\ req.Body.o["device_iden"] = JStr(a.device.Iden)
        /\ (call.op = "Device.PushLink" /\ Usable(a.device)) =>
              /\ req = ClientRequest(PushLinkWithContext(a.device.Iden, a.title, a.u, a.body))
              /\ req.URL = client.URL \o "/pushes"
              /\ req.Body.o["device_iden"] = JStr(a.device.Iden)
        /\ (call.op = "Subscription.PushNote" /\ Usable(a.subscription)) =>
              /\ req = ClientRequest(PushNoteToChannelWithContext(a.subscription.Channel.Tag,
                                                                  a.title, a.body))
              /\ req.URL = client.URL \o "/pushes"
              /\ req.Body.o["channel_tag"] = JStr(a.subscription.Channel.Tag)
        /\ (call.op = "Subscription.PushLink" /\ Usable(a.subscription)) =>
              /\ req = ClientRequest(PushLinkToChannelWithContext(a.subscription.Channel.Tag,
                                                                  a.title, a.u, a.body))
              /\ req.URL = client.URL \o "/pushes"
              /\ req.Body.o["channel_tag"] = JStr(a.subscription.Channel.Tag)

\* the device d3 of a listing has sent a note
C15_Witness ==
    /\ Sent /\ call.op = "Device.PushNote" /\ call.args.device.Iden = "d3"
    /\ call.args.title = "T" /\ call.args.body = "B"
    /\ req.Body.o["device_iden"] = JStr("d3")

\* C16: the ephemeral that PushSMS of a Device sends to /ephemerals has the Iden of that
\* Device as its target_device_iden.
C16_SMSTargetsBoundDevice ==
    (Sent /\ call.op = "Device.PushSMS") =>
        /\ req.URL = client.URL \o "/ephemerals"
        /\ req.Body.o["push"].o["target_device_iden"] = JStr(call.args.device.Iden)

\* C17: every call performs exactly one HTTP request whatever its outcome (transport error,
\* non-200 status, decode failure, close failure), the lookups Device and Subscription
\* included: never a second request, and one request whenever the call has returned. (A call
\* that panics before it has built a request, on an entity without Client or Channel or on a
\* URL that does not parse, makes none: C27, C28, C30.)
C17_ExactlyOneRequest ==
    /\ sent <= 1
    /\ pc \in {"idle", "built"} => sent = 0
    /\ pc = "responded" => sent = 1
    /\ (pc = "done" /\ ~(ret.panic /\ req = NoRequest)) => sent = 1

\* a lookup that the transport failed has returned after one request
C17_Witness ==
    /\ Returned("Device") /\ resp.err = TransportError
    /\ ret.err = TransportError /\ sent = 1

\* C18: the request of every operation carries the context its caller gave, for the
\* operations of the Client, of a Device and of a Subscription.
C18_RequestCarriesCallerContext ==
    (pc \in {"built", "responded"} \/ Sent) => req.ctx = call.args.ctx

\* C20: no step of any operation changes the API key, the HTTP client or the endpoint URL of
\* the Client, whether the operation succeeds or fails.
C20_ClientUnchanged ==
    [][client' = client]_vars

\* an operation has failed and the Client is as New made it
C20_Witness ==
    /\ pc = "done" /\ sent = 1 /\ ret.err # NoError
    /\ client = New(<<97>>)

\* what the call c returns for the response r when no other call runs
Alone(c, r) ==
    CASE c.op = "Devices" -> DevicesWithContext(r)
      [] c.op = "Device" -> DeviceWithContext(r, c.args.nickname)
      [] OTHER -> PushWithContext(r)

\* C19: of the calls that run concurrently on one Client, in any interleaving, each returns
\* the result it would return alone for the response it got.
C19_ResultAsAlone ==
    \A p \in Goroutines :
        goroutines[p].pc = "done" => goroutines[p].ret = Alone(goroutines[p].call, goroutines[p].resp)

\* C19: and no step of a call changes the entities another call has returned.
C19_ReturnedEntitiesUntouched ==
    [][\A p \in Goroutines :
          (goroutines[p].pc = "done" /\ goroutines'[p].pc = "done") =>
              goroutines'[p].ret = goroutines[p].ret]_vars

\* C19: both together
C19_ConcurrentCallsIndependent ==
    []C19_ResultAsAlone /\ C19_ReturnedEntitiesUntouched

\* one call has returned a list with a shared device while another call is in its loop
C19_Witness ==
    /\ goroutines[1].pc = "done" /\ goroutines[1].call.op = "Devices"
    /\ Len(goroutines[1].ret.list) = 1 /\ goroutines[1].ret.list[1].Client = NilClient
    /\ goroutines[2].pc = "loop" /\ goroutines[2].i = 2

\* C21: when the transport gives no response (connection failure, cancellation) every
\* operation returns the error of the transport unchanged, and no value.
C21_TransportErrorVerbatim ==
    (pc = "done" /\ sent > 0 /\ resp.err # NoError) =>
        /\ ~ret.panic
        /\ ret.err = resp.err
        /\ NoValue

C21_Witness ==
    /\ Returned("Me") /\ sent = 1 /\ resp.err = ContextCanceled
    /\ ret.err = ContextCanceled /\ NoValue

\* the call in progress has a request
Built == pc \in {"built", "responded"} \/ Sent

\* C22: the request buildRequest makes goes to base URL + path with the Authorization header;
\* without payload it is a GET with no body and no other header; with a payload it is a POST
\* with Content-Type application/json whose body is the JSON of the payload (for a payload
\* that encoding/json can serialize: C29 is about the others).
C22_RequestShape ==
    Built =>
        /\ req.URL = client.URL \o call.object
        /\ "Authorization" \in DOMAIN req.Header
        /\ call.data = NoData =>
              /\ req.Method = "GET"
              /\ req.Body = NoBody
              /\ DOMAIN req.Header = {"Authorization"}
        /\ call.data # NoData =>
              /\ req.Method = "POST"
              /\ DOMAIN req.Header = {"Authorization", "Content-Type"}
              /\ req.Header["Content-Type"] = "application/json"
              /\ call.data # Unserializable =>
                    /\ req.Body.k = "obj"
                    /\ req.Body.o["type"] = JStr(call.data.Type)
                    /\ req.Body = Encode(call.data)

\* a GET for the listing of subscriptions has been built
C22_Witness ==
    /\ pc = "built" /\ call.op = "Subscriptions"
    /\ req.Method = "GET" /\ req.Body = NoBody /\ DOMAIN req.Header = {"Authorization"}

\* C24: for all arguments PushSMS posts to /ephemerals an envelope of type "push" whose push
\* has type "messaging_extension_reply", package_name "com.pushbullet.android",
\* source_user_iden = userIden, target_device_iden = deviceIden, conversation_iden =
\* phoneNumber and message = message.
C24_SMSEnvelope ==
    (Sent /\ call.op = "PushSMS") =>
        LET a == call.args
            push == req.Body.o["push"]
        IN  /\ req.Method = "POST"
            /\ req.URL = client.URL \o "/ephemerals"
            /\ DOMAIN req.Body.o = {"type", "push"}
            /\ req.Body.o["type"] = JStr("push")
            /\ push.k = "obj"
            /\ DOMAIN push.o = {"type", "package_name", "source_user_iden", "target_device_iden",
                                "conversation_iden", "message"}
            /\ push.o["type"] = JStr("messaging_extension_reply")
            /\ push.o["package_name"] = JStr("com.pushbullet.android")
            /\ push.o["source_user_iden"] = JStr(a.userIden)
            /\ push.o["target_device_iden"] = JStr(a.deviceIden)
            /\ push.o["conversation_iden"] = JStr(a.phoneNumber)
            /\ push.o["message"] = JStr(a.message)

C24_Witness ==
    /\ Sent /\ call.op = "PushSMS" /\ call.args.deviceIden = "d1" /\ call.args.message = "B"
    /\ req.Body.o["push"].o["target_device_iden"] = JStr("d1")

\* C25: whenever Devices, Subscriptions or Me returns a non-nil error, whatever the cause, a
\* failing close after a decode that succeeded included, the value returned with it is empty.
C25_ErrorMeansNoValue ==
    (pc = "done" /\ call.op \in {"Devices", "Subscriptions", "Me"} /\ ~ret.panic
                 /\ ret.err # NoError) => NoValue

\* C26: a push returns no error exactly when the transport gave a response, its status is 200
\* and the body closed without error: every other status, 201 included, is an error, and on
\* 200 the body has no part in the result.
C26_PushSucceedsIffOKAndClosed ==
    (pc = "done" /\ sent > 0 /\ call.op \in PushOps) =>
        /\ ~ret.panic
        /\ NoValue
        /\ ret.err = NoError <=> (resp.err = NoError /\ resp.StatusCode = 200 /\ ~resp.closeFails)

\* Push has returned an error for a 201 whose body closed
C26_Witness ==
    /\ Returned("Push") /\ Answered /\ resp.StatusCode = 201 /\ ~resp.closeFails
    /\ ret.err # NoError

\* C27: for a 200 response whose body is well-formed JSON, a subscription without channel or
\* a null array entry included, Devices, Device, Subscriptions and Subscription return a
\* value or an error; none panics on a nil pointer.
C27_NoNilDereference ==
    (Answered /\ call.op \in {"Devices", "Device", "Subscriptions", "Subscription"}
              /\ resp.StatusCode = 200 /\ resp.Body # JSyntax) => ~ret.panic

\* C28: PushNote of any device that Devices() returned, owned or shared, issues one POST to
\* /pushes whose device_iden is the Iden of the device, and returns; it does not panic for
\* want of a Client.
C28_ListedDeviceCanPush ==
    (pc = "done" /\ call.op = "Device.PushNote") =>
        /\ ~ret.panic
        /\ sent = 1
        /\ req.Method = "POST"
        /\ req.URL = client.URL \o "/pushes"
        /\ req.Body.o["device_iden"] = JStr(call.args.device.Iden)

\* C29: a push whose data cannot be serialized to JSON sends no request and returns an error.
C29_UnserializableIsNotSent ==
    (pc # "idle" /\ call.data = Unserializable) =>
        /\ sent = 0
        /\ pc = "done" => ret.err # NoError

\* C30: when the URL of the request does not parse, the operation returns an error and no
\* value; it does not panic.
C30_MalformedURLIsAnError ==
    (pc = "done" /\ call.op = "Push" /\ ParseFails(client.URL \o call.args.endPoint)) =>
        /\ ~ret.panic
        /\ ret.err # NoError
        /\ NoValue

\* C23: for every Note, with any device iden, channel tag, title and body, empty ones included,
\* decoding the body of the request buildRequest made for it gives a Note equal to it in
\* every field, the type "note" included.
C23_NoteRoundTrip ==
    (Built /\ call.data.struct = "Note") =>
        /\ DecodeNote(req.Body).ok
        /\ DecodeNote(req.Body).v = call.data
        /\ DecodeNote(req.Body).v.Type = "note"

\* the fields of the Note are valid UTF-8
ValidNote(n) == \A f \in {"Iden", "Tag", "Type", "Title", "Body"} : n[f] # InvalidUTF8

\* C23 as amended: the round trip holds for every Note whose strings are valid UTF-8; a string
\* that is not comes back with U+FFFD in place of its invalid bytes.
C23_ValidNoteRoundTrip ==
    (Built /\ call.data.struct = "Note") =>
        /\ DecodeNote(req.Body).ok
        /\ DecodeNote(req.Body).v.Type = "note"
        /\ ValidNote(call.data) => DecodeNote(req.Body).v = call.data
        /\ ~ValidNote(call.data) =>
              DecodeNote(req.Body).v = [call.data EXCEPT !.Title = ToValidUTF8(call.data.Title)]

\* a note for the device d1 with an empty title is in a request and decodes to itself
C23_Witness ==
    /\ Built /\ call.op = "PushNote" /\ call.args.iden = "d1" /\ call.args.title = ""
    /\ call.args.body = "B"
    /\ DecodeNote(req.Body).v = Note("d1", "", "", "B")

====
